---- MODULE Spec2Model ----
(***************************************************************************)
(* Xen grant-table driver of Zephyr (drivers/xen/gnttab.c) as a state      *)
(* machine: the O(1) grant reference allocator (get_free_entry,            *)
(* put_free_entry), granting an entry (gnttab_grant_access), ending a      *)
(* grant (gnttab_end_access, gnttab_reset_flags) and the remote domain     *)
(* that sets and clears the usage bits of a granted entry.                 *)
(*                                                                         *)
(* Every context (thread) runs the functions statement by statement; its   *)
(* position is pc[c], named after the statement it is about to execute.    *)
(* The contexts share one core. The grant table is memory the remote       *)
(* domain reads: the core's plain stores go through its store buffer sb    *)
(* and reach the table in any order that keeps the order of stores to one  *)
(* location; the full fence waits for the buffer to drain.                 *)
(*                                                                         *)
(* The batched map with its retry of transient entries (gnttab_map_refs,   *)
(* gop_eagain_retry) and the page functions (gnttab_get_page,              *)
(* gnttab_put_page) are run by one caller each, against a hypervisor and a *)
(* page allocator that may answer anything their interfaces allow;         *)
(* gnttab_alloc_and_grant is run by the contexts, on top of                *)
(* gnttab_grant_access. Each part has its own next-state relation: Spec    *)
(* and FairSpec (grant and end), AcquireSpec (grants only), MapSpec,       *)
(* PageSpec and AllocSpec.                                                 *)
(***************************************************************************)
EXTENDS Integers, Naturals, Sequences, FiniteSets, TLC

(* ------------------------------ bounds -------------------------------- *)

\* Number of entries of the grant table (NR_GRANT_ENTRIES, scaled down).
NR_GRANT_ENTRIES == 4

\* Number of reserved low grant references (scaled down).
GNTTAB_NR_RESERVED_ENTRIES == 2

\* Number of calls of the driver's functions a behaviour of Spec makes.
MaxCalls == 3

\* Number of calls a behaviour of FairSpec makes: exhausting the identifiers,
\* one more acquire and a release.
MaxCallsFair == 4

\* Largest batch (count) gnttab_map_refs is called with.
MaxBatch == 2

\* Number of pages the page allocator has.
NumPages == 3

(* ----------------------------- constants ------------------------------ *)

\* UINT32_MAX - 1 in the source; the model's integers are 32-bit signed, so
\* the sentinel is kept as the largest-but-one value they hold: like the
\* source's, it is no index of gref_list.
GNTTAB_GREF_USED == 2147483646

GTF_permit_access == 1

GTF_readonly == 4

GTF_reading == 8

GTF_writing == 16

\* Timeout for grant table ops retrying.
GOP_RETRY_DELAY == 200

\* unsigned int step = 10 of gop_eagain_retry.
RetryStepLen == 10

\* Status codes of the grant table operations.
GNTST_okay == 0

GNTST_general_error == 0 - 1

GNTST_no_device_space == 0 - 7

GNTST_bad_page == 0 - 9

GNTST_eagain == 0 - 12

\* The statuses the hypervisor answers for an entry.
Statuses == {GNTST_okay, GNTST_general_error, GNTST_no_device_space,
             GNTST_bad_page, GNTST_eagain}

\* What HYPERVISOR_grant_table_op returns for the call as a whole: success or
\* an error.
OpResults == {0, 0 - 1}

\* The indexes of map_ops.
Ops == 0..(MaxBatch - 1)

\* No answer of the hypervisor yet.
NoStatus == 1

\* The null pointer.
NULL == 0

XEN_PAGE_SIZE == 4096

ENOMEM == 12

\* The addresses of the pages k_aligned_alloc(XEN_PAGE_SIZE, XEN_PAGE_SIZE)
\* hands out.
Pages == {k * XEN_PAGE_SIZE : k \in 1..NumPages}

\* xen_virt_to_gfn: the frame number of an address.
XenVirtToGfn(a) == a \div XEN_PAGE_SIZE

\* The concurrent execution contexts (threads) that call the driver.
Ctx == {1, 2}

Slots == 0..(NR_GRANT_ENTRIES - 1)

\* The identifiers gnttab_end_access accepts (its __ASSERT).
Grefs == GNTTAB_NR_RESERVED_ENTRIES..(NR_GRANT_ENTRIES - 1)

\* k_sem_init that counts the reserved identifiers too.
SemLimit_WholeTable == NR_GRANT_ENTRIES

\* Limit (and initial count) of gnttab.sem.
SemLimit == NR_GRANT_ENTRIES - GNTTAB_NR_RESERVED_ENTRIES

\* Arguments of gnttab_grant_access drawn by the callers.
Domids == {1}

Gfns == {1, 2}

(* ------------------------------ helpers ------------------------------- *)

HasBit(f, b) == (f \div b) % 2 = 1

SetBit(f, b) == IF HasBit(f, b) THEN f ELSE f + b

ClearBit(f, b) == IF HasBit(f, b) THEN f - b ELSE f

\* flags & (GTF_reading | GTF_writing)
InUseBits(f) == HasBit(f, GTF_reading) \/ HasBit(f, GTF_writing)

\* The flags gnttab_grant_permit_access computes.
PermitFlags(ro) == IF ro THEN SetBit(GTF_permit_access, GTF_readonly)
                         ELSE GTF_permit_access

\* gnttab_init with the list seeded one identifier too low.
InitGrefList_SeedsReserved ==
  [i \in Slots |->
     IF i = 0 THEN GNTTAB_NR_RESERVED_ENTRIES - 1
     ELSE IF i = NR_GRANT_ENTRIES - 1 THEN 0
     ELSE IF i >= GNTTAB_NR_RESERVED_ENTRIES - 1 THEN i + 1
     ELSE 0]

\* gnttab_init whose loop also writes the last slot, which then does not end
\* the list.
InitGrefList_Unterminated ==
  [i \in Slots |->
     IF i = 0 THEN GNTTAB_NR_RESERVED_ENTRIES
     ELSE IF i >= GNTTAB_NR_RESERVED_ENTRIES THEN i + 1
     ELSE 0]

\* gnttab_init: the free list seeded over the non-reserved range; the array
\* is static storage, so the slots init does not write are zero.
InitGrefList ==
  [i \in Slots |->
     IF i = 0 THEN GNTTAB_NR_RESERVED_ENTRIES
     ELSE IF i = NR_GRANT_ENTRIES - 1 THEN 0
     ELSE IF i >= GNTTAB_NR_RESERVED_ENTRIES THEN i + 1
     ELSE 0]

\* grant_entry_v1_t, all fields zero (an invalid entry).
ZeroEntry == [flags |-> 0, domid |-> 0, frame |-> 0]

VARIABLES
  sem,        \* gnttab.sem: its count
  semq,       \* gnttab.sem: the contexts pended on it, longest waiter first
  gref_list,  \* gnttab.gref_list
  table,      \* gnttab.table, as the memory every party sees
  sb,         \* the core's stores to the table that are not yet in memory
  pc,         \* per context: the statement it is about to execute
  gref,       \* per context: the local/parameter gref
  domid,      \* per context: parameter domid of gnttab_grant_access
  gfn,        \* per context: parameter gfn
  readonly,   \* per context: parameter readonly
  flags,      \* per context: local flags (and nflags) of gnttab_reset_flags
  rc,         \* per context: local rc of gnttab_end_access
  key,        \* per context: the key irq_lock returned (local flags)
  irqLocked,  \* per context: whether the thread has interrupts locked
  held,       \* per identifier: acquires that returned it since its last release
  lastPut,    \* the identifier put_free_entry pushed, while no pop has followed (else 0)
  calls,      \* the number of calls made so far
  known,      \* the identifiers finished gnttab_grant_access calls have returned
  \* gnttab_map_refs and gop_eagain_retry, one caller
  mpc,        \* the statement the caller is about to execute
  count,      \* parameter count
  op_i,       \* local i of gnttab_map_refs
  ret,        \* local ret of gnttab_map_refs, then what it returned
  map_ops,    \* map_ops[k].status, k in 0..count-1
  delay,      \* local delay of gop_eagain_retry
  batch,      \* the statuses the batched call answered
  hvlast,     \* per entry: the status the hypervisor answered to its last resubmission
  resubs,     \* per entry: its resubmissions so far
  hcalls,     \* the privileged calls of this gnttab_map_refs so far
  \* gnttab_get_page and gnttab_put_page, one caller
  ppc,        \* the statement the caller is about to execute
  page_addr,  \* local/parameter page_addr, then what gnttab_get_page returned
  pret,       \* local ret of gnttab_get_page and of gnttab_put_page
  heap,       \* the pages allocated from the page allocator
  physmap,    \* the frames populated in the physical-address map
  heap0,      \* heap when the last gnttab_get_page was called
  physmap0,   \* physmap when the last gnttab_get_page was called
  got,        \* the pages gnttab_get_page returned and gnttab_put_page did not get yet
  fresh,      \* the page the last call, a gnttab_get_page, returned (else NULL)
  rt,         \* whether the gnttab_put_page under way follows that get_page at once
  \* gnttab_alloc_and_grant
  page,       \* per context: local page
  map,        \* per context: *map
  retval      \* per context: what its last gnttab_alloc_and_grant returned

mapVars == <<mpc, count, op_i, ret, map_ops, delay, batch, hvlast, resubs, hcalls>>

pageVars == <<ppc, page_addr, pret, heap, physmap, heap0, physmap0, got, fresh, rt,
              page, map, retval>>

vars == <<sem, semq, gref_list, table, sb, pc, gref, domid, gfn, readonly,
          flags, rc, key, irqLocked, held, lastPut, calls, known,
          mapVars, pageVars>>

gntVars == <<sem, semq, gref_list, table, sb, pc, gref, domid, gfn, readonly,
             flags, rc, key, irqLocked, held, lastPut, calls, known>>

allocVars == <<sem, semq, gref_list, held, lastPut, calls>>

argVars == <<domid, gfn, readonly>>

resetVars == <<flags, rc>>

\* The statements between irq_lock and irq_unlock.
CritPcs == {"get_head", "get_next", "get_mark", "get_unlock",
            "put_check", "put_warn", "put_next", "put_head", "put_unlock"}

InCrit(c) == pc[c] \in CritPcs

\* Between irq_lock and irq_unlock a context has interrupts masked and does
\* not block: no other context of the core runs until it is through.
IrqFree(c) == \A d \in Ctx \ {c} : ~InCrit(d)

\* Context c runs, about to execute statement l: no other context has
\* interrupts masked.
At(c, l) == pc[c] = l /\ IrqFree(c)

Goto(c, l) == pc' = [pc EXCEPT ![c] = l]

Init ==
  /\ sem = SemLimit
  /\ semq = <<>>
  /\ gref_list = InitGrefList
  /\ table = [g \in Slots |-> ZeroEntry]
  /\ sb = <<>>
  /\ pc = [c \in Ctx |-> "idle"]
  /\ gref = [c \in Ctx |-> 0]
  /\ domid = [c \in Ctx |-> 0]
  /\ gfn = [c \in Ctx |-> 0]
  /\ readonly = [c \in Ctx |-> FALSE]
  /\ flags = [c \in Ctx |-> 0]
  /\ rc = [c \in Ctx |-> 0]
  /\ key = [c \in Ctx |-> FALSE]
  /\ irqLocked = [c \in Ctx |-> FALSE]
  /\ held = [g \in Grefs |-> 0]
  /\ lastPut = 0
  /\ calls = 0
  /\ known = {}
  /\ mpc = "m_idle"
  /\ count = 0
  /\ op_i = 0
  /\ ret = 0
  /\ map_ops = [k \in Ops |-> GNTST_okay]
  /\ delay = 0
  /\ batch = [k \in Ops |-> NoStatus]
  /\ hvlast = [k \in Ops |-> NoStatus]
  /\ resubs = [k \in Ops |-> 0]
  /\ hcalls = 0
  /\ ppc = "p_idle"
  /\ page_addr = NULL
  /\ pret = 0
  /\ heap = {}
  /\ physmap = {XenVirtToGfn(p) : p \in Pages}
  /\ heap0 = {}
  /\ physmap0 = {XenVirtToGfn(p) : p \in Pages}
  /\ got = {}
  /\ fresh = NULL
  /\ rt = FALSE
  /\ page = [c \in Ctx |-> NULL]
  /\ map = [c \in Ctx |-> NULL]
  /\ retval = [c \in Ctx |-> 0]

(* ------------------------- the store buffer --------------------------- *)

\* A plain store to a field of table[g]: it enters the core's buffer.
Store(g, f, v) == sb' = Append(sb, [g |-> g, f |-> f, v |-> v])

\* Entry i of a buffer may reach memory when no earlier entry of the buffer
\* writes the same location.
MayCommit(buf, i) ==
  \A j \in 1..(i - 1) : ~(buf[j].g = buf[i].g /\ buf[j].f = buf[i].f)

RemoveAt(buf, i) == [j \in 1..(Len(buf) - 1) |-> IF j < i THEN buf[j] ELSE buf[j + 1]]

\* What the core reads at table[g].flags: its own latest pending store to
\* it, or else memory.
LoadFlags(g) ==
  LET mine == {i \in 1..Len(sb) : sb[i].g = g /\ sb[i].f = "flags"}
  IN IF mine = {} THEN table[g].flags
     ELSE sb[CHOOSE i \in mine : \A j \in mine : j <= i].v

\* A pending store of the core reaches the table.
Commit ==
  \E i \in 1..Len(sb) :
    /\ MayCommit(sb, i)
    /\ table' = [table EXCEPT ![sb[i].g][sb[i].f] = sb[i].v]
    /\ sb' = RemoveAt(sb, i)
    /\ UNCHANGED <<mapVars, pageVars, allocVars, known, pc, gref, argVars, resetVars, key, irqLocked>>

(* ------------------------------ k_sem --------------------------------- *)

\* k_sem_take(&gnttab.sem, K_FOREVER): takes a count, or pends the caller.
KSemTake(c, next) ==
  IF sem > 0
  THEN /\ sem' = sem - 1
       /\ semq' = semq
       /\ Goto(c, next)
  ELSE /\ sem' = sem
       /\ semq' = Append(semq, c)
       /\ Goto(c, "get_wait")

\* k_sem_give(&gnttab.sem): readies the longest waiter, which then owns the
\* count given; with no waiter the count grows up to the limit.
KSemGive(c, next) ==
  IF semq # <<>>
  THEN /\ sem' = sem
       /\ semq' = Tail(semq)
       /\ pc' = [pc EXCEPT ![c] = next, ![Head(semq)] = "get_lock"]
  ELSE /\ sem' = IF sem < SemLimit THEN sem + 1 ELSE sem
       /\ semq' = semq
       /\ Goto(c, next)

(* -------------------------- get_free_entry ---------------------------- *)

\* gnttab_grant_access is called with a frame of gfns and a readonly of ros:
\* its first statement is get_free_entry().
GrantCallWith(c, gfns, ros, budget) ==
  /\ At(c, "idle")
  /\ calls < budget
  /\ calls' = calls + 1
  /\ \E d \in Domids, f \in gfns, ro \in ros :
       /\ domid' = [domid EXCEPT ![c] = d]
       /\ gfn' = [gfn EXCEPT ![c] = f]
       /\ readonly' = [readonly EXCEPT ![c] = ro]
  /\ Goto(c, "get_take")
  /\ UNCHANGED <<mapVars, pageVars, known, sem, semq, gref_list, held, lastPut, table, sb, gref, resetVars, key, irqLocked>>

GrantCall(c) == GrantCallWith(c, Gfns, BOOLEAN, MaxCalls)

\* line 57
GetTake(c) ==
  /\ At(c, "get_take")
  /\ KSemTake(c, "get_lock")
  /\ UNCHANGED <<mapVars, pageVars, known, calls, gref_list, held, lastPut, table, sb, gref, argVars, resetVars, key,
                 irqLocked>>

\* line 59: flags = irq_lock()
GetLock(c) ==
  /\ At(c, "get_lock")
  /\ key' = [key EXCEPT ![c] = irqLocked[c]]
  /\ irqLocked' = [irqLocked EXCEPT ![c] = TRUE]
  /\ Goto(c, "get_head")
  /\ UNCHANGED <<mapVars, pageVars, known, allocVars, table, sb, gref, argVars, resetVars>>

\* The __ASSERT of get_free_entry and of gnttab_end_access.
ValidGref(g) == g >= GNTTAB_NR_RESERVED_ENTRIES /\ g < NR_GRANT_ENTRIES

\* Where get_free_entry goes after reading the head g: on when the assertion
\* holds; else it stops (assertions built in) or, when g still indexes the
\* array, may go on (assertions built out).
AfterHead(g) ==
  IF ValidGref(g) THEN {"get_next"}
  ELSE IF g \in Slots THEN {"get_assert", "get_next"}
  ELSE {"get_assert"}

\* lines 60-62: gref = gnttab.gref_list[0]; __ASSERT(...)
GetHead(c) ==
  /\ At(c, "get_head")
  /\ gref' = [gref EXCEPT ![c] = gref_list[0]]
  /\ \E l \in AfterHead(gref_list[0]) : Goto(c, l)
  /\ held' = [g \in Grefs |->
                IF g = gref_list[0] /\ held[g] < 2 THEN held[g] + 1 ELSE held[g]]
  /\ UNCHANGED <<mapVars, pageVars, known, calls, sem, semq, gref_list, lastPut, table, sb, argVars,
                 resetVars, key, irqLocked>>

\* get_free_entry that leaves the head where it is.
PopHead_KeepsHead(gl, g) == gl

\* line 63: gnttab.gref_list[0] = gnttab.gref_list[gref]
PopHead(gl, g) == [gl EXCEPT ![0] = gl[g]]

GetNext(c) ==
  /\ At(c, "get_next")
  /\ gref_list' = PopHead(gref_list, gref[c])
  /\ lastPut' = 0
  /\ Goto(c, "get_mark")
  /\ UNCHANGED <<mapVars, pageVars, known, calls, sem, semq, held, table, sb, gref, argVars, resetVars, key,
                 irqLocked>>

\* get_free_entry that does not mark the slot.
MarkUsed_NoMark(gl, g) == gl

\* line 64: gnttab.gref_list[gref] = GNTTAB_GREF_USED
MarkUsed(gl, g) == [gl EXCEPT ![g] = GNTTAB_GREF_USED]

GetMark(c) ==
  /\ At(c, "get_mark")
  /\ gref_list' = MarkUsed(gref_list, gref[c])
  /\ Goto(c, "get_unlock")
  /\ UNCHANGED <<mapVars, pageVars, known, calls, sem, semq, held, lastPut, table, sb, gref, argVars, resetVars, key,
                 irqLocked>>

\* line 65: irq_unlock(flags); get_free_entry returns gref to
\* gnttab_grant_access, which calls gnttab_grant_permit_access
GetUnlock(c) ==
  /\ At(c, "get_unlock")
  /\ irqLocked' = [irqLocked EXCEPT ![c] = key[c]]
  /\ Goto(c, "gpa_frame")
  /\ UNCHANGED <<mapVars, pageVars, known, allocVars, table, sb, gref, argVars, resetVars, key>>

(* --------------------- gnttab_grant_permit_access --------------------- *)

\* line 98: gnttab.table[gref].frame = gfn
GpaFrame(c) ==
  /\ At(c, "gpa_frame")
  /\ Store(gref[c], "frame", gfn[c])
  /\ Goto(c, "gpa_domid")
  /\ UNCHANGED <<mapVars, pageVars, known, allocVars, table, gref, argVars, resetVars, key, irqLocked>>

\* line 99: gnttab.table[gref].domid = domid
GpaDomid(c) ==
  /\ At(c, "gpa_domid")
  /\ Store(gref[c], "domid", domid[c])
  /\ Goto(c, "gpa_fence")
  /\ UNCHANGED <<mapVars, pageVars, known, allocVars, table, gref, argVars, resetVars, key, irqLocked>>

\* barrier_dmem_fence_full(): passed once every earlier store is in memory.
FencePassed(buf) == buf = <<>>

\* line 101
GpaFence(c) ==
  /\ At(c, "gpa_fence")
  /\ FencePassed(sb)
  /\ Goto(c, "gpa_flags")
  /\ UNCHANGED <<mapVars, pageVars, known, allocVars, table, sb, gref, argVars, resetVars, key, irqLocked>>

\* line 103: gnttab.table[gref].flags = flags
GpaFlags(c) ==
  /\ At(c, "gpa_flags")
  /\ Store(gref[c], "flags", PermitFlags(readonly[c]))
  /\ Goto(c, "ga_ret")
  /\ UNCHANGED <<mapVars, pageVars, known, allocVars, table, gref, argVars, resetVars, key, irqLocked>>

\* line 113: return gref
GrantReturn(c) ==
  /\ At(c, "ga_ret")
  /\ known' = known \cup {gref[c]}
  /\ Goto(c, "idle")
  /\ gref' = [gref EXCEPT ![c] = 0]
  /\ domid' = [domid EXCEPT ![c] = 0]
  /\ gfn' = [gfn EXCEPT ![c] = 0]
  /\ readonly' = [readonly EXCEPT ![c] = FALSE]
  /\ key' = [key EXCEPT ![c] = FALSE]
  /\ UNCHANGED <<mapVars, pageVars, allocVars, table, sb, resetVars, irqLocked>>

(* ------------------------- gnttab_reset_flags ------------------------- *)

\* gnttab_end_access(gref) is called with an identifier that a finished
\* gnttab_grant_access returned (to this or to another context, ended
\* before or not); its assertion accepts it, and it calls
\* gnttab_reset_flags(gref).
EndCallWith(c, budget) ==
  /\ At(c, "idle")
  /\ calls < budget
  /\ calls' = calls + 1
  /\ \E g \in known : ValidGref(g) /\ gref' = [gref EXCEPT ![c] = g]
  /\ Goto(c, "rf_read")
  /\ UNCHANGED <<mapVars, pageVars, known, sem, semq, gref_list, held, lastPut, table, sb, argVars, resetVars, key, irqLocked>>

EndCall(c) == EndCallWith(c, MaxCalls)

\* What gnttab_reset_flags returns when the entry is still in use (line 130)
\* and when it has cleared the flags (line 135).
ResetInUse == 1

ResetDone == 0

\* line 146: if (!rc)
EndReturnsEarly(r) == r = 0

\* lines 145-150: rc = gnttab_reset_flags(gref); if (!rc) return rc;
\* put_free_entry(gref): where gnttab_end_access goes with the result r.
AfterReset(r) == IF EndReturnsEarly(r) THEN "ea_return_rc" ELSE "put_lock"

\* lines 126-131 with the value v just read: flags = nflags;
\* if (flags & (GTF_reading | GTF_writing)) return 1; else on to the
\* compare-and-swap.
RfTest(c, v) ==
  /\ flags' = [flags EXCEPT ![c] = v]
  /\ IF InUseBits(v)
     THEN /\ rc' = [rc EXCEPT ![c] = ResetInUse]
          /\ Goto(c, AfterReset(ResetInUse))
     ELSE /\ rc' = rc
          /\ Goto(c, "rf_cas")

\* line 123: nflags = *pflags; then the first pass of the loop's test
RfRead(c) ==
  /\ At(c, "rf_read")
  /\ RfTest(c, LoadFlags(gref[c]))
  /\ UNCHANGED <<mapVars, pageVars, known, allocVars, table, sb, gref, argVars, key, irqLocked>>

\* lines 132-135: nflags = synch_cmpxchg(pflags, flags, 0), a full barrier;
\* while (nflags != flags), back to the test with the value found; return 0
RfCas(c) ==
  /\ At(c, "rf_cas")
  /\ FencePassed(sb)
  /\ IF table[gref[c]].flags = flags[c]
     THEN /\ table' = [table EXCEPT ![gref[c]].flags = 0]
          /\ rc' = [rc EXCEPT ![c] = ResetDone]
          /\ flags' = flags
          /\ Goto(c, AfterReset(ResetDone))
     ELSE /\ table' = table
          /\ RfTest(c, table[gref[c]].flags)
  /\ UNCHANGED <<mapVars, pageVars, known, allocVars, sb, gref, argVars, key, irqLocked>>

(* -------------------------- gnttab_end_access ------------------------- *)

\* The call is over: the locals are gone.
Leave(c) ==
  /\ Goto(c, "idle")
  /\ gref' = [gref EXCEPT ![c] = 0]
  /\ flags' = [flags EXCEPT ![c] = 0]
  /\ rc' = [rc EXCEPT ![c] = 0]
  /\ key' = [key EXCEPT ![c] = FALSE]

\* line 147: return rc
EaReturnRc(c) ==
  /\ At(c, "ea_return_rc")
  /\ Leave(c)
  /\ UNCHANGED <<mapVars, pageVars, known, allocVars, table, sb, argVars, irqLocked>>

\* line 152: return 0
EaReturn0(c) ==
  /\ At(c, "ea_return_0")
  /\ Leave(c)
  /\ UNCHANGED <<mapVars, pageVars, known, allocVars, table, sb, argVars, irqLocked>>

(* --------------------------- put_free_entry --------------------------- *)

\* line 74: flags = irq_lock()
PutLock(c) ==
  /\ At(c, "put_lock")
  /\ key' = [key EXCEPT ![c] = irqLocked[c]]
  /\ irqLocked' = [irqLocked EXCEPT ![c] = TRUE]
  /\ Goto(c, "put_check")
  /\ UNCHANGED <<mapVars, pageVars, known, allocVars, table, sb, gref, argVars, resetVars>>

\* put_free_entry without its double-free guard.
NotInUse_NoGuard(gl, g) == FALSE

\* line 75: gnttab.gref_list[gref] != GNTTAB_GREF_USED
NotInUse(gl, g) == gl[g] # GNTTAB_GREF_USED

\* line 75
PutCheck(c) ==
  /\ At(c, "put_check")
  /\ IF NotInUse(gref_list, gref[c])
     THEN Goto(c, "put_warn")
     ELSE Goto(c, "put_next")
  /\ UNCHANGED <<mapVars, pageVars, known, allocVars, table, sb, gref, argVars, resetVars, key, irqLocked>>

\* lines 76-78: LOG_WRN(...); return; put_free_entry is left without
\* irq_unlock
PutWarn(c) ==
  /\ At(c, "put_warn")
  /\ Goto(c, "ea_return_0")
  /\ UNCHANGED <<mapVars, pageVars, known, allocVars, table, sb, gref, argVars, resetVars, key, irqLocked>>

\* line 81: gnttab.gref_list[gref] = gnttab.gref_list[0]
LinkToHead(gl, g) == [gl EXCEPT ![g] = gl[0]]

PutNext(c) ==
  /\ At(c, "put_next")
  /\ gref_list' = LinkToHead(gref_list, gref[c])
  /\ held' = [held EXCEPT ![gref[c]] = 0]
  /\ Goto(c, "put_head")
  /\ UNCHANGED <<mapVars, pageVars, known, calls, sem, semq, lastPut, table, sb, gref, argVars, resetVars, key,
                 irqLocked>>

\* put_free_entry that does not make the identifier the head.
PushHead_KeepsHead(gl, g) == gl

\* put_free_entry that makes the identifier the head of an empty list only.
PushHead_OnlyWhenEmpty(gl, g) == IF gl[0] = 0 THEN [gl EXCEPT ![0] = g] ELSE gl

\* line 82: gnttab.gref_list[0] = gref
PushHead(gl, g) == [gl EXCEPT ![0] = g]

PutHead(c) ==
  /\ At(c, "put_head")
  /\ gref_list' = PushHead(gref_list, gref[c])
  /\ lastPut' = gref[c]
  /\ Goto(c, "put_unlock")
  /\ UNCHANGED <<mapVars, pageVars, known, calls, sem, semq, held, table, sb, gref, argVars, resetVars, key,
                 irqLocked>>

\* line 84: irq_unlock(flags)
PutUnlock(c) ==
  /\ At(c, "put_unlock")
  /\ irqLocked' = [irqLocked EXCEPT ![c] = key[c]]
  /\ Goto(c, "put_give")
  /\ UNCHANGED <<mapVars, pageVars, known, allocVars, table, sb, gref, argVars, resetVars, key>>

\* put_free_entry that returns without giving the semaphore.
PutGive_NoGive(c) ==
  /\ At(c, "put_give")
  /\ Goto(c, "ea_return_0")
  /\ UNCHANGED <<mapVars, pageVars, known, calls, sem, semq, gref_list, held, lastPut, table, sb, gref,
                 argVars, resetVars, key, irqLocked>>

\* line 86: k_sem_give(&gnttab.sem)
PutGive(c) ==
  /\ At(c, "put_give")
  /\ KSemGive(c, "ea_return_0")
  /\ UNCHANGED <<mapVars, pageVars, known, calls, gref_list, held, lastPut, table, sb, gref, argVars, resetVars, key,
                 irqLocked>>

(* -------------------------- the remote domain ------------------------- *)

\* The usage bits the remote domain may set in an entry whose flags are f.
RemoteBits(f) ==
  IF ~HasBit(f, GTF_permit_access) THEN {}
  ELSE IF HasBit(f, GTF_readonly) THEN {GTF_reading}
  ELSE {GTF_reading, GTF_writing}

\* The remote domain starts using a granted entry: it sets a usage bit, one
\* of bits.
RemoteSetOf(g, bits) ==
  /\ \E b \in RemoteBits(table[g].flags) \cap bits :
       /\ ~HasBit(table[g].flags, b)
       /\ table' = [table EXCEPT ![g].flags = SetBit(@, b)]
  /\ UNCHANGED <<mapVars, pageVars, known, allocVars, sb, pc, gref, argVars, resetVars, key, irqLocked>>

RemoteSet(g) == RemoteSetOf(g, {GTF_reading, GTF_writing})

\* The remote domain stops using an entry: it clears a usage bit.
RemoteClear(g) ==
  /\ \E b \in {GTF_reading, GTF_writing} :
       /\ HasBit(table[g].flags, b)
       /\ table' = [table EXCEPT ![g].flags = ClearBit(@, b)]
  /\ UNCHANGED <<mapVars, pageVars, known, allocVars, sb, pc, gref, argVars, resetVars, key, irqLocked>>

(* --------------------------- specification ---------------------------- *)

Next ==
  \/ \E c \in Ctx :
       \/ GrantCall(c) \/ GetTake(c) \/ GetLock(c) \/ GetHead(c) \/ GetNext(c)
       \/ GetMark(c) \/ GetUnlock(c) \/ GpaFrame(c) \/ GpaDomid(c)
       \/ GpaFence(c) \/ GpaFlags(c) \/ GrantReturn(c)
       \/ EndCall(c) \/ RfRead(c) \/ RfCas(c) \/ EaReturnRc(c) \/ EaReturn0(c)
       \/ PutLock(c) \/ PutCheck(c) \/ PutWarn(c) \/ PutNext(c) \/ PutHead(c)
       \/ PutUnlock(c) \/ PutGive(c)
  \/ Commit
  \/ \E g \in Grefs : RemoteSet(g) \/ RemoteClear(g)

Spec == Init /\ [][Next]_vars

(* -------------------------- gnttab_map_refs --------------------------- *)

\* The resubmissions of one entry are counted up to one more than the code
\* can make, the privileged calls of one gnttab_map_refs up to two.
ResubCap == (GOP_RETRY_DELAY \div RetryStepLen) + 1

CountUp(n, cap) == IF n < cap THEN n + 1 ELSE n

\* gnttab_map_refs(map_ops, count) is called with a batch of n requests.
MapCall ==
  /\ mpc = "m_idle"
  /\ \E n \in 1..MaxBatch : count' = n
  /\ op_i' = 0
  /\ ret' = 0
  /\ map_ops' = [k \in Ops |-> GNTST_okay]
  /\ delay' = 0
  /\ batch' = [k \in Ops |-> NoStatus]
  /\ hvlast' = [k \in Ops |-> NoStatus]
  /\ resubs' = [k \in Ops |-> 0]
  /\ hcalls' = 0
  /\ mpc' = "m_batch"
  /\ UNCHANGED <<gntVars, pageVars>>

\* The status arrays the hypervisor may leave after a batched call on n
\* requests: any status in each of them.
BatchAnswers(n) ==
  {st \in [Ops -> Statuses] : \A k \in Ops : k >= n => st[k] = GNTST_okay}

\* lines 257-262: ret = HYPERVISOR_grant_table_op(GNTTABOP_map_grant_ref,
\* map_ops, count); if (ret) return ret; i = 0
MapBatch ==
  /\ mpc = "m_batch"
  /\ \E r \in OpResults, st \in BatchAnswers(count) :
       /\ ret' = r
       /\ map_ops' = st
       /\ batch' = st
       /\ mpc' = IF r # 0 THEN "m_ret" ELSE "m_loop"
  /\ hcalls' = CountUp(hcalls, 2)
  /\ op_i' = 0
  /\ UNCHANGED <<gntVars, pageVars, count, delay, hvlast, resubs>>

\* gnttab_map_refs that resubmits the entries out of device space too.
NeedsRetry_AlsoNoSpace(s) == s \in {GNTST_eagain, GNTST_no_device_space}

\* line 268: case GNTST_eagain
NeedsRetry(s) == s = GNTST_eagain

\* lines 262-281: i < count; switch (map_ops[i].status): GNTST_eagain calls
\* gop_eagain_retry (line 178: step = 10, delay = step), any other status
\* goes on to i++; after the loop, return 0
MapLoop ==
  /\ mpc = "m_loop"
  /\ IF op_i < count
     THEN IF NeedsRetry(map_ops[op_i])
          THEN /\ delay' = RetryStepLen
               /\ mpc' = "r_call"
               /\ UNCHANGED <<op_i, ret>>
          ELSE /\ op_i' = op_i + 1
               /\ UNCHANGED <<mpc, delay, ret>>
     ELSE /\ ret' = 0
          /\ mpc' = "m_ret"
          /\ UNCHANGED <<op_i, delay>>
  /\ UNCHANGED <<gntVars, pageVars, count, map_ops, batch, hvlast, resubs, hcalls>>

\* lines 182-183: HYPERVISOR_grant_table_op(cmd, gref, 1): the hypervisor
\* answers any status for the entry; if (*status == GNTST_eagain)
RetryCall ==
  /\ mpc = "r_call"
  /\ \E s \in Statuses :
       /\ map_ops' = [map_ops EXCEPT ![op_i] = s]
       /\ hvlast' = [hvlast EXCEPT ![op_i] = s]
       /\ mpc' = IF s = GNTST_eagain THEN "r_sleep" ELSE "r_step"
  /\ resubs' = [resubs EXCEPT ![op_i] = CountUp(@, ResubCap)]
  /\ hcalls' = CountUp(hcalls, 2)
  /\ UNCHANGED <<gntVars, pageVars, count, op_i, ret, delay, batch>>

\* line 184: k_sleep(K_MSEC(delay)) is over
RetrySleep ==
  /\ mpc = "r_sleep"
  /\ mpc' = "r_step"
  /\ UNCHANGED <<gntVars, pageVars, count, op_i, ret, map_ops, delay, batch, hvlast,
                 resubs, hcalls>>

\* gop_eagain_retry whose delay does not grow.
NextDelay_NoStep(d) == d

\* line 187: delay += step
NextDelay(d) == d + RetryStepLen

\* line 188: while ((*status == GNTST_eagain) && (delay < GOP_RETRY_DELAY))
RetryAgain(s, d) == s = GNTST_eagain /\ d < GOP_RETRY_DELAY

\* lines 187-188
RetryStep ==
  /\ mpc = "r_step"
  /\ delay' = NextDelay(delay)
  /\ mpc' = IF RetryAgain(map_ops[op_i], NextDelay(delay)) THEN "r_call" ELSE "r_out"
  /\ UNCHANGED <<gntVars, pageVars, count, op_i, ret, map_ops, batch, hvlast, resubs,
                 hcalls>>

\* gop_eagain_retry that never reports the timeout.
TimedOut_Never(d) == FALSE

\* line 190: if (delay >= GOP_RETRY_DELAY)
TimedOut(d) == d >= GOP_RETRY_DELAY

\* lines 190-193: the timeout test, *status = GNTST_bad_page; then back in
\* gnttab_map_refs, lines 272-274 and the loop's i++: i--; break; i++
RetryOut ==
  /\ mpc = "r_out"
  /\ map_ops' = IF TimedOut(delay)
                THEN [map_ops EXCEPT ![op_i] = GNTST_bad_page]
                ELSE map_ops
  /\ op_i' = (op_i - 1) + 1
  /\ mpc' = "m_loop"
  /\ UNCHANGED <<gntVars, pageVars, count, ret, delay, batch, hvlast, resubs, hcalls>>

\* lines 259 and 281: gnttab_map_refs returns ret; the caller has the result
\* and the statuses until it calls again
MapReturn ==
  /\ mpc = "m_ret"
  /\ mpc' = "m_idle"
  /\ UNCHANGED <<gntVars, pageVars, count, op_i, ret, map_ops, delay, batch, hvlast,
                 resubs, hcalls>>

\* The steps of a gnttab_map_refs under way.
MapStep ==
  \/ MapBatch \/ MapLoop \/ RetryCall \/ RetrySleep \/ RetryStep \/ RetryOut
  \/ MapReturn

MapNext == MapCall \/ MapStep

\* A call under way goes on: the hypervisor answers every call and every
\* sleep ends. Nothing obliges the caller to call.
MapSpec == Init /\ [][MapNext]_vars /\ WF_vars(MapStep)

(* ------------------------- the page allocator ------------------------- *)

\* What k_aligned_alloc(XEN_PAGE_SIZE, XEN_PAGE_SIZE) may return with the
\* pages h allocated: a page that is not allocated, or NULL.
AllocResults(h) == {NULL} \cup (Pages \ h)

\* k_free(p)
KFree(h, p) == h \ {p}

\* What HYPERVISOR_memory_op returns: XENMEM_remove_from_physmap 0 or an
\* error; XENMEM_populate_physmap the number of extents populated or an
\* error.
RemoveResults == {0, 0 - 1}

PopulateResults == {1, 0, 0 - 1}

\* XENMEM_remove_from_physmap of frame g, done.
RemoveFrame(pm, g) == pm \ {g}

\* XENMEM_populate_physmap of frame g, done.
PopulateFrame(pm, g) == pm \cup {g}

(* --------------------------- gnttab_get_page -------------------------- *)

\* The caller's variables of the page functions that a step leaves alone.
pageOthers == <<page, map, retval>>

\* gnttab_get_page() is called.
GetPageCall ==
  /\ ppc = "p_idle"
  /\ ppc' = "gp_alloc"
  /\ page_addr' = NULL
  /\ pret' = 0
  /\ heap0' = heap
  /\ physmap0' = physmap
  /\ fresh' = NULL
  /\ rt' = FALSE
  /\ UNCHANGED <<gntVars, mapVars, pageOthers, heap, physmap, got>>

\* lines 202-206: page_addr = k_aligned_alloc(...); if (!page_addr) return NULL
GpAlloc ==
  /\ ppc = "gp_alloc"
  /\ \E p \in AllocResults(heap) :
       /\ page_addr' = p
       /\ IF p = NULL
          THEN heap' = heap /\ ppc' = "gp_ret"
          ELSE heap' = heap \cup {p} /\ ppc' = "gp_remove"
  /\ UNCHANGED <<gntVars, mapVars, pageOthers, pret, physmap, heap0, physmap0, got,
                 fresh, rt>>

\* What gnttab_get_page does with the page p it allocated when the
\* hypervisor refused to remove its frame: lines 217-220 log and return.
AfterRemoveFailed(h, p) == h

\* lines 208-222: rfpm.gpfn = xen_virt_to_gfn(page_addr);
\* ret = HYPERVISOR_memory_op(XENMEM_remove_from_physmap, &rfpm);
\* if (ret) return NULL; return page_addr
GpRemove ==
  /\ ppc = "gp_remove"
  /\ \E r \in RemoveResults :
       /\ pret' = r
       /\ IF r # 0
          THEN /\ physmap' = physmap
               /\ heap' = AfterRemoveFailed(heap, page_addr)
               /\ page_addr' = NULL
          ELSE /\ physmap' = RemoveFrame(physmap, XenVirtToGfn(page_addr))
               /\ heap' = heap
               /\ page_addr' = page_addr
  /\ ppc' = "gp_ret"
  /\ UNCHANGED <<gntVars, mapVars, pageOthers, heap0, physmap0, got, fresh, rt>>

\* gnttab_get_page has returned page_addr (or NULL) to its caller.
GpReturn ==
  /\ ppc = "gp_ret"
  /\ ppc' = "p_idle"
  /\ got' = IF page_addr = NULL THEN got ELSE got \cup {page_addr}
  /\ fresh' = page_addr
  /\ UNCHANGED <<gntVars, mapVars, pageOthers, page_addr, pret, heap, physmap, heap0,
                 physmap0, rt>>

(* --------------------------- gnttab_put_page -------------------------- *)

\* gnttab_put_page(page_addr) is called with a page gnttab_get_page returned.
PutPageCall ==
  /\ ppc = "p_idle"
  /\ \E p \in got :
       /\ page_addr' = p
       /\ got' = got \ {p}
       /\ rt' = (p = fresh)
  /\ fresh' = NULL
  /\ pret' = 0
  /\ ppc' = "pp_populate"
  /\ UNCHANGED <<gntVars, mapVars, pageOthers, heap, physmap, heap0, physmap0>>

\* put_page that asks the hypervisor for the frame after the page's.
PutFrame_NextFrame(a) == XenVirtToGfn(a) + 1

\* line 229: xen_pfn_t page = xen_virt_to_gfn(page_addr)
PutFrame(a) == XenVirtToGfn(a)

\* lines 243-248: ret = HYPERVISOR_memory_op(XENMEM_populate_physmap,
\* &reservation); if (ret != nr_extents) return
PpPopulate ==
  /\ ppc = "pp_populate"
  /\ \E r \in PopulateResults :
       /\ pret' = r
       /\ IF r # 1
          THEN physmap' = physmap /\ ppc' = "pp_ret"
          ELSE /\ physmap' = PopulateFrame(physmap, PutFrame(page_addr))
               /\ ppc' = "pp_free"
  /\ UNCHANGED <<gntVars, mapVars, pageOthers, page_addr, heap, heap0, physmap0, got,
                 fresh, rt>>

\* line 250: k_free(page_addr)
PpFree ==
  /\ ppc = "pp_free"
  /\ heap' = KFree(heap, page_addr)
  /\ ppc' = "pp_ret"
  /\ UNCHANGED <<gntVars, mapVars, pageOthers, page_addr, pret, physmap, heap0,
                 physmap0, got, fresh, rt>>

\* gnttab_put_page has returned.
PpReturn ==
  /\ ppc = "pp_ret"
  /\ ppc' = "p_idle"
  /\ UNCHANGED <<gntVars, mapVars, pageOthers, page_addr, pret, heap, physmap, heap0,
                 physmap0, got, fresh, rt>>

PageNext ==
  \/ GetPageCall \/ GpAlloc \/ GpRemove \/ GpReturn
  \/ PutPageCall \/ PpPopulate \/ PpFree \/ PpReturn

PageSpec == Init /\ [][PageNext]_vars

(* ----------------------- gnttab_alloc_and_grant ----------------------- *)

\* The variables of the caller of gnttab_get_page and gnttab_put_page.
pageCaller == <<ppc, page_addr, pret, physmap, heap0, physmap0, got, fresh, rt>>

\* gnttab_alloc_and_grant(map, readonly) is called by context c; *map is a
\* location of the caller's, NULL so far.
AagCall(c) ==
  /\ At(c, "idle")
  /\ \E ro \in BOOLEAN : readonly' = [readonly EXCEPT ![c] = ro]
  /\ map' = [map EXCEPT ![c] = NULL]
  /\ Goto(c, "aag_alloc")
  /\ UNCHANGED <<allocVars, known, table, sb, gref, domid, gfn, resetVars, key,
                 irqLocked, mapVars, pageCaller, heap, page, retval>>

\* gnttab_alloc_and_grant that goes on with whatever the allocator returned.
AllocFailed_Never(p) == FALSE

\* line 164: if (page == NULL)
AllocFailed(p) == p = NULL

\* lines 163-166: page = k_aligned_alloc(XEN_PAGE_SIZE, XEN_PAGE_SIZE);
\* if (page == NULL) return -ENOMEM
AagAlloc(c) ==
  /\ At(c, "aag_alloc")
  /\ \E p \in AllocResults(heap) :
       /\ page' = [page EXCEPT ![c] = p]
       /\ heap' = IF p = NULL THEN heap ELSE heap \cup {p}
       /\ Goto(c, IF AllocFailed(p) THEN "aag_enomem" ELSE "aag_grant")
  /\ UNCHANGED <<allocVars, known, table, sb, gref, argVars, resetVars, key,
                 irqLocked, mapVars, pageCaller, map, retval>>

\* line 165: return -ENOMEM
AagEnomem(c) ==
  /\ At(c, "aag_enomem")
  /\ retval' = [retval EXCEPT ![c] = 0 - ENOMEM]
  /\ page' = [page EXCEPT ![c] = NULL]
  /\ readonly' = [readonly EXCEPT ![c] = FALSE]
  /\ Goto(c, "idle")
  /\ UNCHANGED <<allocVars, known, table, sb, gref, domid, gfn, resetVars, key,
                 irqLocked, mapVars, pageCaller, heap, map>>

\* lines 168-169: gfn = xen_virt_to_gfn(page);
\* gref = gnttab_grant_access(0, gfn, readonly): the call, whose first
\* statement is get_free_entry()
AagGrant(c) ==
  /\ At(c, "aag_grant")
  /\ gfn' = [gfn EXCEPT ![c] = XenVirtToGfn(page[c])]
  /\ domid' = [domid EXCEPT ![c] = 0]
  /\ Goto(c, "get_take")
  /\ UNCHANGED <<allocVars, known, table, sb, gref, readonly, resetVars, key,
                 irqLocked, mapVars, pageCaller, heap, page, map, retval>>

\* line 113, in a gnttab_grant_access called at line 169: it returns gref to
\* gnttab_alloc_and_grant
AagGranted(c) ==
  /\ At(c, "ga_ret")
  /\ Goto(c, "aag_map")
  /\ UNCHANGED <<allocVars, known, table, sb, gref, argVars, resetVars, key,
                 irqLocked, mapVars, pageCaller, heap, page, map, retval>>

\* line 171: *map = page
AagMap(c) ==
  /\ At(c, "aag_map")
  /\ map' = [map EXCEPT ![c] = page[c]]
  /\ Goto(c, "aag_ret")
  /\ UNCHANGED <<allocVars, known, table, sb, gref, argVars, resetVars, key,
                 irqLocked, mapVars, pageCaller, heap, page, retval>>

\* line 173: return gref
AagReturn(c) ==
  /\ At(c, "aag_ret")
  /\ retval' = [retval EXCEPT ![c] = gref[c]]
  /\ Goto(c, "idle")
  /\ gref' = [gref EXCEPT ![c] = 0]
  /\ domid' = [domid EXCEPT ![c] = 0]
  /\ gfn' = [gfn EXCEPT ![c] = 0]
  /\ readonly' = [readonly EXCEPT ![c] = FALSE]
  /\ key' = [key EXCEPT ![c] = FALSE]
  /\ page' = [page EXCEPT ![c] = NULL]
  /\ UNCHANGED <<allocVars, known, table, sb, resetVars, irqLocked, mapVars,
                 pageCaller, heap, map>>

AllocNext ==
  \/ \E c \in Ctx :
       \/ AagCall(c) \/ AagAlloc(c) \/ AagEnomem(c) \/ AagGrant(c)
       \/ GetTake(c) \/ GetLock(c) \/ GetHead(c) \/ GetNext(c) \/ GetMark(c)
       \/ GetUnlock(c) \/ GpaFrame(c) \/ GpaDomid(c) \/ GpaFence(c) \/ GpaFlags(c)
       \/ AagGranted(c) \/ AagMap(c) \/ AagReturn(c)
  \/ Commit

AllocSpec == Init /\ [][AllocNext]_vars

(* ------------------- the first acquires after gnttab_init ------------- *)

\* After gnttab_init the callers only acquire: gnttab_grant_access, and no
\* gnttab_end_access.
AcquireNext ==
  \/ \E c \in Ctx :
       \/ GrantCall(c) \/ GetTake(c) \/ GetLock(c) \/ GetHead(c) \/ GetNext(c)
       \/ GetMark(c) \/ GetUnlock(c) \/ GpaFrame(c) \/ GpaDomid(c)
       \/ GpaFence(c) \/ GpaFlags(c) \/ GrantReturn(c)
  \/ Commit

AcquireSpec == Init /\ [][AcquireNext]_vars

(* ------------- gnttab_end_access on any valid identifier -------------- *)

\* gnttab_end_access(gref) is called with any identifier its assertion
\* accepts, granted or not, ended before or not.
EndCallAnyGref(c) ==
  /\ At(c, "idle")
  /\ calls < MaxCalls
  /\ calls' = calls + 1
  /\ \E g \in Grefs : gref' = [gref EXCEPT ![c] = g]
  /\ Goto(c, "rf_read")
  /\ UNCHANGED <<mapVars, pageVars, known, sem, semq, gref_list, held, lastPut, table, sb,
                 argVars, resetVars, key, irqLocked>>

ValidArgsNext ==
  \/ \E c \in Ctx :
       \/ GrantCall(c) \/ GetTake(c) \/ GetLock(c) \/ GetHead(c) \/ GetNext(c)
       \/ GetMark(c) \/ GetUnlock(c) \/ GpaFrame(c) \/ GpaDomid(c)
       \/ GpaFence(c) \/ GpaFlags(c) \/ GrantReturn(c)
       \/ EndCallAnyGref(c) \/ RfRead(c) \/ RfCas(c) \/ EaReturnRc(c)
       \/ EaReturn0(c)
       \/ PutLock(c) \/ PutCheck(c) \/ PutWarn(c) \/ PutNext(c) \/ PutHead(c)
       \/ PutUnlock(c) \/ PutGive(c)
  \/ Commit
  \/ \E g \in Grefs : RemoteSet(g) \/ RemoteClear(g)

ValidArgsSpec == Init /\ [][ValidArgsNext]_vars

(* ------------------- what the claims are stated with ------------------ *)

\* The statements of put_free_entry.
PutPcs == {"put_lock", "put_check", "put_warn", "put_next", "put_head",
           "put_unlock", "put_give"}

\* Where a context is once gnttab_reset_flags has returned: flags[c] is then
\* the value of the entry's flags the function decided on.
ResetOverPcs == PutPcs \cup {"ea_return_rc", "ea_return_0"}

\* The statements of gnttab_grant_access after get_free_entry has returned
\* the identifier gref[c].
GrantedPcs == {"gpa_frame", "gpa_domid", "gpa_fence", "gpa_flags", "ga_ret"}

\* The identifiers met walking the free list from cur, at most n of them:
\* the walk ends at 0, at the in-use sentinel or at any other value that is
\* no identifier.
RECURSIVE ChainFrom(_, _, _)
ChainFrom(gl, cur, n) ==
  IF n = 0 \/ cur \notin (Slots \ {0}) THEN <<>>
  ELSE <<cur>> \o ChainFrom(gl, gl[cur], n - 1)

\* The value at which that walk stops.
RECURSIVE ChainEnd(_, _, _)
ChainEnd(gl, cur, n) ==
  IF n = 0 \/ cur \notin (Slots \ {0}) THEN cur
  ELSE ChainEnd(gl, gl[cur], n - 1)

\* The free list: the chain that starts at gref_list[0].
FreeChain == ChainFrom(gref_list, gref_list[0], NR_GRANT_ENTRIES)

FreeSet == {FreeChain[i] : i \in 1..Len(FreeChain)}

(* ------------------------------- C1 ----------------------------------- *)

\* C1: gnttab_end_access on an entry whose reading or writing bit is set
\* (as gnttab_reset_flags found it, at its first read or at a later pass of
\* its compare-and-swap loop) returns the non-success result and does not
\* call put_free_entry: such a call is never inside put_free_entry, and it
\* returns through "return rc" with rc nonzero.
C1_InUseIsRefused ==
  \A c \in Ctx :
    (pc[c] \in ResetOverPcs /\ InUseBits(flags[c]))
      => (pc[c] = "ea_return_rc" /\ rc[c] # 0)

(* ------------------------------- C2 ----------------------------------- *)

\* C2: when gnttab_end_access finds neither the reading nor the writing bit
\* set, it zeroes the flags and gives the identifier back to the allocator
\* through put_free_entry before it returns success: such a call never
\* leaves by the early "return rc".
C2_ClearedIsFreed ==
  \A c \in Ctx :
    (pc[c] \in ResetOverPcs /\ ~InUseBits(flags[c])) => pc[c] # "ea_return_rc"

(* ------------------------------- C3 ----------------------------------- *)

\* C3: no identifier is handed out twice without a release in between: for
\* every identifier, at most one acquire has returned it since it was last
\* pushed back by put_free_entry.
C3_NoDoubleAllocation == \A g \in Grefs : held[g] <= 1

\* An identifier that was granted, released by gnttab_end_access (its entry
\* still carries the flags of that grant) and has just been acquired again.
C3_Witness ==
  \E c \in Ctx :
    /\ pc[c] = "gpa_frame"
    /\ held[gref[c]] = 1
    /\ table[gref[c]].flags # 0

(* ------------------------------- C4 ----------------------------------- *)

\* C4: for a gnttab_grant_access(domid, gfn, readonly) that obtained g, an
\* observer of the table that reads table[g].flags as nonzero finds
\* table[g].frame = gfn and table[g].domid = domid.
C4_FlagsImplyFrameAndDomid ==
  \A c \in Ctx :
    (pc[c] \in GrantedPcs /\ table[gref[c]].flags # 0)
      => (table[gref[c]].frame = gfn[c] /\ table[gref[c]].domid = domid[c])

(* ------------------------------- C5 ----------------------------------- *)

\* C5: every identifier on the free list has flags zero in its table entry.
C5_FreeMeansFlagsZero == \A g \in FreeSet : table[g].flags = 0

(* ------------------------------- C6 ----------------------------------- *)

\* C6: put_free_entry(gref) on an identifier whose slot is not the in-use
\* sentinel is a no-op: no step of such a call changes gnttab.gref_list (the
\* head included) or the semaphore, and the call goes from the test to the
\* warning and out of the function, never to the statements that push.
C6_RejectedPutIsNoOp ==
  [][\A c \in Ctx :
       (/\ pc[c] \in {"put_lock", "put_check", "put_warn"}
        /\ gref_list[gref[c]] # GNTTAB_GREF_USED
        /\ pc'[c] # pc[c])
         => (/\ gref_list' = gref_list
             /\ sem' = sem
             /\ semq' = semq
             /\ pc'[c] \in {"put_check", "put_warn", "ea_return_0"})]_vars

\* put_free_entry has found the slot of its identifier not marked in use.
C6_Witness ==
  \E c \in Ctx : pc[c] = "put_warn" /\ gref_list[gref[c]] # GNTTAB_GREF_USED

(* ------------------------------- C7 ----------------------------------- *)

NoCritical == \A c \in Ctx : ~InCrit(c)

\* C7: outside the allocator's critical section the chain from gref_list[0]
\* ends at 0 and holds no identifier twice, and every non-reserved
\* identifier is either on that chain or has the in-use sentinel in its
\* slot, never both and never neither.
C7_FreeOrUsed ==
  NoCritical =>
    /\ ChainEnd(gref_list, gref_list[0], NR_GRANT_ENTRIES) = 0
    /\ Cardinality(FreeSet) = Len(FreeChain)
    /\ \A g \in Grefs : (g \in FreeSet) # (gref_list[g] = GNTTAB_GREF_USED)

\* After two acquires and a release: the released identifier is the whole
\* free list and the other identifier is in use.
C7_Witness ==
  /\ NoCritical
  /\ FreeChain = <<GNTTAB_NR_RESERVED_ENTRIES>>
  /\ gref_list[NR_GRANT_ENTRIES - 1] = GNTTAB_GREF_USED

(* ------------------------------- C8 ----------------------------------- *)

\* C8, as claimed: in every reachable state the number of identifiers on
\* the free list equals the count of gnttab.sem, which is within
\* [0, capacity - reserved].
C8_Original == Len(FreeChain) = sem /\ sem \in 0..SemLimit

\* The acquires that hold a count of the semaphore and have not yet taken
\* the head off the list (about to execute line 59, 60 or 63).
TakenNotPopped == {c \in Ctx : pc[c] \in {"get_lock", "get_head", "get_next"}}

\* The releases that have pushed their identifier and have not yet given the
\* semaphore (about to execute line 84 or 86).
PushedNotGiven == {c \in Ctx : pc[c] \in {"put_unlock", "put_give"}}

\* C8, amended: the count of gnttab.sem and the length of the free list stay
\* within [0, capacity - reserved], the count never exceeds the length, and
\* the length is the count plus the acquires that have taken the semaphore
\* but not yet popped plus the releases that have pushed but not yet given:
\* the two are equal whenever no acquire or release is in flight.
C8_Amended ==
  /\ sem \in 0..SemLimit
  /\ Len(FreeChain) \in 0..SemLimit
  /\ sem <= Len(FreeChain)
  /\ Len(FreeChain) = sem + Cardinality(TakenNotPopped) + Cardinality(PushedNotGiven)

\* A release that has pushed its identifier and not yet given the semaphore,
\* while an acquire holds a count and has not popped.
C8_Witness ==
  /\ \E c \in Ctx : pc[c] = "put_give"
  /\ \E d \in Ctx : pc[d] = "get_lock"
  /\ Len(FreeChain) = sem + 2

(* ------------------------------- C9 ----------------------------------- *)

\* C9: get_free_entry never hands out an identifier below
\* GNTTAB_NR_RESERVED_ENTRIES (nor 0), its assertion never fails, and no
\* reserved identifier is on the free list.
C9_ReservedNeverAllocated ==
  /\ \A c \in Ctx :
       /\ pc[c] # "get_assert"
       /\ pc[c] \in ({"get_next", "get_mark", "get_unlock"} \cup GrantedPcs)
            => ValidGref(gref[c])
  /\ \A g \in FreeSet : g >= GNTTAB_NR_RESERVED_ENTRIES

\* The lowest non-reserved identifier handed out again after identifiers
\* were granted and ended: every identifier is now allocated.
C9_Witness ==
  \E c \in Ctx :
    /\ pc[c] = "ga_ret"
    /\ gref[c] = GNTTAB_NR_RESERVED_ENTRIES
    /\ known # {}
    /\ FreeSet = {}

(* ------------------------------- C10 ---------------------------------- *)

\* The steps a context takes inside a call once it has made it.
Step(c) ==
  \/ GetTake(c) \/ GetLock(c) \/ GetHead(c) \/ GetNext(c) \/ GetMark(c)
  \/ GetUnlock(c) \/ GpaFrame(c) \/ GpaDomid(c) \/ GpaFence(c) \/ GpaFlags(c)
  \/ GrantReturn(c) \/ RfRead(c) \/ RfCas(c) \/ EaReturnRc(c) \/ EaReturn0(c)
  \/ PutLock(c) \/ PutCheck(c) \/ PutWarn(c) \/ PutNext(c) \/ PutHead(c)
  \/ PutUnlock(c) \/ PutGive(c)

\* The callers grant one frame, writable, and the remote domain maps it for
\* reading: the allocator and the semaphore see every interleaving of
\* acquire and release, and the table fewer values.
GrantCallOneFrame(c) == GrantCallWith(c, {1}, {FALSE}, MaxCallsFair)

EndCallFair(c) == EndCallWith(c, MaxCallsFair)

RemoteReads(g) == RemoteSetOf(g, {GTF_reading})

FairNext ==
  \/ \E c \in Ctx : GrantCallOneFrame(c) \/ EndCallFair(c) \/ Step(c)
  \/ Commit
  \/ \E g \in Grefs : RemoteReads(g) \/ RemoteClear(g)

\* Fair scheduling: a context that can go on inside a call eventually does,
\* and a buffered store eventually reaches memory. Nothing obliges a caller
\* to make a call, nor the remote domain to act.
FairSpec ==
  /\ Init
  /\ [][FairNext]_vars
  /\ \A c \in Ctx : WF_vars(Step(c))
  /\ WF_vars(Commit)

\* A put_free_entry of context d that passes, or has passed, the test of the
\* in-use mark: it is on its way to k_sem_give.
ReleaseUnderWay(d) ==
  \/ pc[d] \in {"put_next", "put_head", "put_unlock", "put_give"}
  \/ pc[d] \in {"put_lock", "put_check"} /\ gref_list[gref[d]] = GNTTAB_GREF_USED

\* C10: with every identifier allocated (the count of gnttab.sem is 0) an
\* acquire does not return and does not fail: it pends on the semaphore and
\* leaves the wait only by the k_sem_give of a release; and once a holder's
\* put_free_entry of an identifier is under way, the longest pended acquire
\* eventually completes with a valid identifier.
C10_BlocksUntilRelease ==
  /\ [][\A c \in Ctx :
          /\ (pc[c] = "get_take" /\ sem = 0 /\ pc'[c] # pc[c])
               => pc'[c] = "get_wait"
          /\ (pc[c] = "get_wait" /\ pc'[c] # pc[c])
               => \E d \in Ctx : pc[d] = "put_give" /\ pc'[d] # pc[d]]_vars
  /\ \A c \in Ctx :
       (pc[c] = "get_wait" /\ semq # <<>> /\ Head(semq) = c
          /\ \E d \in Ctx : ReleaseUnderWay(d))
         ~> (pc[c] = "ga_ret" /\ ValidGref(gref[c]))

\* Every identifier is allocated, an acquire is pended on the semaphore and
\* a release has pushed an identifier and is about to give the semaphore.
C10_Witness ==
  \E c, d \in Ctx :
    /\ pc[c] = "get_wait"
    /\ semq = <<c>>
    /\ sem = 0
    /\ pc[d] = "put_give"

(* ------------------------------- C11 ---------------------------------- *)

\* C11: the allocator is last-in-first-out: the get_free_entry that reads
\* the head after a put_free_entry has pushed an identifier, with no pop in
\* between (the acquire was pended on the semaphore and readied by that
\* release, or was called after it), has read exactly that identifier.
C11_LastInFirstOut ==
  \A c \in Ctx : (pc[c] = "get_next" /\ lastPut # 0) => gref[c] = lastPut

\* Both identifiers were granted, the semaphore is at zero, a release has
\* pushed the highest identifier onto the empty list and the next acquire
\* (pended until then, or called afterwards) has read it from the head.
C11_Witness ==
  \E c \in Ctx :
    /\ pc[c] = "get_next"
    /\ known = Grefs
    /\ sem = 0
    /\ lastPut = NR_GRANT_ENTRIES - 1
    /\ gref[c] = lastPut
    /\ gref_list[lastPut] = 0

(* ------------------------------- C12 ---------------------------------- *)

\* C12: gnttab_map_refs terminates whatever the hypervisor answers, the
\* transient status for ever included: no entry is resubmitted more than 19
\* times, and a call that has submitted its batch eventually returns.
C12_MapRefsTerminates ==
  /\ [](\A k \in Ops : resubs[k] <= 19)
  /\ (mpc = "m_batch") ~> (mpc = "m_ret")

\* The first entry of a batch of two was answered the transient status 19
\* times, and gnttab_map_refs is at the second entry, transient as well.
C12_Witness ==
  /\ mpc = "r_call"
  /\ count = MaxBatch
  /\ op_i = 1
  /\ resubs[0] = 19
  /\ hvlast[0] = GNTST_eagain

(* ------------------------------- C13 ---------------------------------- *)

\* C13: when gop_eagain_retry returns, the entry it was called for is not
\* transient: an entry still transient at the bound has been given
\* GNTST_bad_page; and when gnttab_map_refs returns 0 no entry of the batch
\* has the status GNTST_eagain.
C13_NoTransientLeft ==
  /\ \A k \in Ops :
       (mpc \in {"m_loop", "m_ret"} /\ resubs[k] > 0)
         => /\ map_ops[k] # GNTST_eagain
            /\ hvlast[k] = GNTST_eagain => map_ops[k] = GNTST_bad_page
  /\ (mpc = "m_ret" /\ ret = 0)
       => \A k \in 0..(count - 1) : map_ops[k] # GNTST_eagain

\* gnttab_map_refs returns 0 for a batch whose last entry was transient up
\* to the bound and now has GNTST_bad_page.
C13_Witness ==
  /\ mpc = "m_ret"
  /\ ret = 0
  /\ batch[count - 1] = GNTST_eagain
  /\ hvlast[count - 1] = GNTST_eagain
  /\ map_ops[count - 1] = GNTST_bad_page

(* ------------------------------- C14 ---------------------------------- *)

\* The statements of gnttab_map_refs after a batched call that returned 0.
AfterBatchPcs == {"m_loop", "r_call", "r_sleep", "r_step", "r_out"}

\* C14: an entry whose status after the batched call is not GNTST_eagain is
\* never resubmitted and keeps that status up to the return; and a batch
\* answered GNTST_okay in every entry returns 0 after one privileged call.
C14_OnlyTransientResubmitted ==
  /\ \A k \in 0..(count - 1) :
       ((mpc \in AfterBatchPcs \/ (mpc = "m_ret" /\ ret = 0))
          /\ batch[k] # GNTST_eagain)
         => (resubs[k] = 0 /\ map_ops[k] = batch[k])
  /\ (mpc = "m_ret" /\ \A k \in 0..(count - 1) : batch[k] = GNTST_okay)
       => (ret = 0 => hcalls = 1)

\* A batch of two returns 0: its first entry was answered out of device
\* space and was left alone, its second was transient and was resubmitted.
C14_Witness ==
  /\ mpc = "m_ret"
  /\ ret = 0
  /\ count = MaxBatch
  /\ batch[0] = GNTST_no_device_space
  /\ map_ops[0] = GNTST_no_device_space
  /\ resubs[0] = 0
  /\ batch[1] = GNTST_eagain
  /\ resubs[1] > 0

(* ------------------------------- C19 ---------------------------------- *)

\* C19: when the hypervisor answers a resubmission of gop_eagain_retry, the
\* last one the bound permits included, with a status that is not transient,
\* retrying stops and the entry keeps exactly that status.
C19_AnswerIsKept ==
  \A k \in Ops :
    (mpc \in {"m_loop", "m_ret"} /\ resubs[k] > 0 /\ hvlast[k] # GNTST_eagain)
      => map_ops[k] = hvlast[k]

(* ------------------------------- C15 ---------------------------------- *)

\* C15: a gnttab_put_page that follows at once the gnttab_get_page that
\* returned its page, the hypervisor having done both calls, leaves the
\* physical-address map and the set of allocated pages as they were before
\* that get_page: the frame is populated again and the page is free.
C15_GetPutRoundTrip ==
  (ppc = "pp_ret" /\ rt /\ pret = 1)
    => /\ physmap = physmap0
       /\ heap = heap0
       /\ XenVirtToGfn(page_addr) \in physmap
       /\ page_addr \notin heap

\* Such a put_page has returned, while an earlier page is still out of the
\* physical-address map.
C15_Witness ==
  /\ ppc = "pp_ret"
  /\ rt
  /\ pret = 1
  /\ got # {}
  /\ page_addr \notin heap
  /\ \E p \in got : XenVirtToGfn(p) \notin physmap

(* ------------------------------- C16 ---------------------------------- *)

\* C16: a gnttab_get_page that reports failure (returns NULL), the case
\* where the hypervisor refused to remove the frame included, leaves the set
\* of allocated pages as it was before the call.
C16_FailedGetPageFreesPage ==
  (ppc = "gp_ret" /\ page_addr = NULL) => heap = heap0

(* ------------------------------- C17 ---------------------------------- *)

\* The grant state: the semaphore, the free list and the table with the
\* stores on their way to it.
grantState == <<sem, semq, gref_list, table, sb>>

\* C17: when k_aligned_alloc returns NULL, gnttab_alloc_and_grant goes to
\* "return -ENOMEM" and returns that value, and no step of the call from
\* the allocation on acquires an identifier, changes the semaphore, the free
\* list or the table, or writes *map.
C17_EnomemTouchesNothing ==
  [][\A c \in Ctx :
       /\ (pc[c] = "aag_alloc" /\ pc'[c] # pc[c] /\ page'[c] = NULL)
            => /\ pc'[c] = "aag_enomem"
               /\ grantState' = grantState
               /\ gref'[c] = gref[c]
               /\ map'[c] = map[c]
       /\ (pc[c] = "aag_enomem" /\ pc'[c] # pc[c])
            => /\ pc'[c] = "idle"
               /\ retval'[c] = 0 - ENOMEM
               /\ grantState' = grantState
               /\ gref'[c] = gref[c]
               /\ map'[c] = map[c]]_vars

\* A gnttab_alloc_and_grant has returned -ENOMEM with *map still NULL, while
\* another context's call is granting its page.
C17_Witness ==
  \E c, d \in Ctx :
    /\ pc[c] = "idle"
    /\ retval[c] = 0 - ENOMEM
    /\ map[c] = NULL
    /\ pc[d] = "gpa_fence"
    /\ page[d] # NULL

(* ------------------------------- C18 ---------------------------------- *)

\* The identifiers GNTTAB_NR_RESERVED_ENTRIES .. NR_GRANT_ENTRIES - 1 in
\* increasing order.
SeededChain == [k \in 1..SemLimit |-> GNTTAB_NR_RESERVED_ENTRIES + k - 1]

\* The statements of get_free_entry and gnttab_grant_access at which the
\* context has read an identifier from the head.
AcquiredPcs == {"get_next", "get_mark", "get_unlock"} \cup GrantedPcs

\* C18: when gnttab_init has completed and nothing was called yet, the count
\* of gnttab.sem is capacity - reserved and the free list holds exactly the
\* identifiers reserved .. capacity - 1, each once, and ends at 0; and while
\* no more than capacity - reserved acquires were called and none released,
\* no acquire pends on the semaphore and the identifiers acquired are
\* non-reserved and pairwise distinct.
C18_InitSeedsFreeList ==
  /\ calls = 0
       => /\ sem = SemLimit
          /\ FreeChain = SeededChain
          /\ ChainEnd(gref_list, gref_list[0], NR_GRANT_ENTRIES) = 0
  /\ calls <= SemLimit => \A c \in Ctx : pc[c] # "get_wait"
  /\ \A c \in Ctx :
       pc[c] \in AcquiredPcs
         => /\ ValidGref(gref[c])
            /\ gref[c] \notin known
            /\ \A d \in Ctx \ {c} : pc[d] \in AcquiredPcs => gref[d] # gref[c]

\* capacity - reserved acquires were called, none pended, and they returned
\* all the non-reserved identifiers.
C18_Witness ==
  /\ calls = SemLimit
  /\ \A c \in Ctx : pc[c] = "idle"
  /\ known = Grefs
  /\ sem = 0
  /\ FreeChain = <<>>

(* ------------------------------- C20 ---------------------------------- *)

\* C20: a context has interrupts locked only between the irq_lock and the
\* irq_unlock of get_free_entry or put_free_entry: no path through them,
\* that of put_free_entry which rejects the identifier included, returns
\* with interrupts still locked.
C20_UnlockedOnReturn ==
  \A c \in Ctx : irqLocked[c] => pc[c] \in CritPcs

(* ------------------------------- C21 ---------------------------------- *)

\* C21: with gnttab_grant_access and gnttab_end_access called in any
\* interleaving, the latter with any identifier its assertion accepts, the
\* count of gnttab.sem never exceeds the number of identifiers on the free
\* list; a context that has passed k_sem_take and not yet popped finds at
\* gref_list[0] an identifier in [GNTTAB_NR_RESERVED_ENTRIES,
\* NR_GRANT_ENTRIES), never the end-of-list 0 nor the in-use sentinel; and
\* the __ASSERT of get_free_entry never fails.
C21_AssertionHolds ==
  /\ sem <= Len(FreeChain)
  /\ \A c \in Ctx :
       /\ pc[c] # "get_assert"
       /\ pc[c] \in {"get_lock", "get_head"}
            => /\ ValidGref(gref_list[0])
               /\ gref_list[0] # 0
               /\ gref_list[0] # GNTTAB_GREF_USED

\* A context has passed k_sem_take and is about to read the head, which is
\* the identifier a release has pushed back in front of the rest of the list.
C21_Witness ==
  \E c \in Ctx :
    /\ pc[c] = "get_head"
    /\ lastPut # 0
    /\ gref_list[0] = lastPut
    /\ gref_list[lastPut] # 0
    /\ sem < Len(FreeChain)

====
